---- MODULE Spec2Model ----
(***************************************************************************)
(* Model of crypto/attachment/attachments.go: the EncryptedFile descriptor *)
(* (key, IV, digest and version fields plus the lazily decoded key cache)  *)
(* and its operations NewEncryptedFile, Encrypt and Decrypt.               *)
(*                                                                         *)
(* Scale.  A byte is one bit wide, the arrays are a few bytes long and the *)
(* base64 alphabets keep two symbols each: "A", the digit 0 of both        *)
(* alphabets, and the symbol in which the two alphabets differ ("+" in the *)
(* standard alphabet, "-" in the URL-safe one).  SHA-256 is modelled as a  *)
(* collision-free digest on the payloads of the model, and AES-256-CTR as  *)
(* the XOR of the data with a keystream that is a function of the key, the *)
(* IV and the position.                                                    *)
(***************************************************************************)
EXTENDS Integers, Sequences, FiniteSets, TLC

VARIABLES ef, origin, decodedBefore, last, lastEnc, ref, pc, ct, res

vars == <<ef, origin, decodedBefore, last, lastEnc, ref, pc, ct, res>>

(***************************************************************************)
(* Sizes.  keyLength and ivLength are the lengths of the key and IV arrays *)
(* (32 and 16 in the source, scaled down here); MaxLen bounds the length   *)
(* of the payloads handed to Encrypt and Decrypt.                          *)
(***************************************************************************)
keyLength == 2

ivLength == 2

MaxLen == 2

\* Wide enough for the digest to be collision-free on payloads up to MaxLen.
hashLength == MaxLen + 1

Byte == {0, 1}

Threads == {1, 2}

ByteArrays(n) == [1..n -> Byte]

Payloads == UNION {ByteArrays(n) : n \in 0..MaxLen}

ShortPayloads == {p \in Payloads : Len(p) <= 1}

Zeroed(n) == [i \in 1..n |-> 0]

Ones(n) == [i \in 1..n |-> 1]

\* A Go pointer or slice that may be nil: <<>> is nil, <<v>> points at v.
NilPtr == <<>>

Ref(v) == <<v>>

(***************************************************************************)
(* encoding/base64, unpadded.                                              *)
(***************************************************************************)
RawStdEncoding == <<"A", "+">>

RawURLEncoding == <<"A", "-">>

EncodedLen(n) == n

Symbols(enc) == {enc[i] : i \in 1..Len(enc)}

DigitOf(enc, ch) == CHOOSE v \in Byte : enc[v + 1] = ch

EncodeToString(enc, bytes) == [i \in 1..Len(bytes) |-> enc[bytes[i] + 1]]

\* Decode writes the digits it has decoded into dst and stops with an error at
\* the first symbol that is not of the alphabet; the rest of dst is untouched.
\* (The library also skips CR and LF in src; the fields here hold neither.)
Decode(enc, dst, src) ==
    LET bad  == {i \in 1..Len(src) : src[i] \notin Symbols(enc)}
        stop == IF bad = {} THEN Len(src) + 1
                ELSE CHOOSE i \in bad : \A j \in bad : i <= j
    IN  [dst |-> [i \in 1..Len(dst) |->
                    IF i < stop /\ i <= Len(src) THEN DigitOf(enc, src[i])
                    ELSE dst[i]],
         err |-> bad # {}]

keyBase64Length == EncodedLen(keyLength)

hashBase64Length == EncodedLen(hashLength)

ivBase64Length == EncodedLen(ivLength)

(***************************************************************************)
(* crypto/sha256 and crypto/aes + crypto/cipher.                           *)
(***************************************************************************)
Sum256(data) ==
    [i \in 1..hashLength |->
        IF i <= Len(data) THEN data[i] ELSE IF i = Len(data) + 1 THEN 1 ELSE 0]

Xor(a, b) == (a + b) % 2

KeyStream(key, iv, i) ==
    Xor(Xor(key[((i - 1) % keyLength) + 1], iv[((i - 1) % ivLength) + 1]),
        ((i - 1) \div keyLength) % 2)

xorA256CTR(source, key, iv) ==
    [i \in 1..Len(source) |-> Xor(source[i], KeyStream(key, iv, i))]

\* rand.Read(key[:]) fills the key; rand.Read(iv[:8]) fills the first half of
\* the IV and leaves the second half zero.
genA256CTR ==
    {[key |-> k, iv |-> v] :
        k \in ByteArrays(keyLength),
        v \in {w \in ByteArrays(ivLength) :
                 \A i \in 1..ivLength : i > ivLength \div 2 => w[i] = 0}}

(***************************************************************************)
(* The descriptor.  Extractable, KeyType and KeyOps are written once by    *)
(* NewEncryptedFile and read by no operation; they are left out.           *)
(***************************************************************************)
EncryptedFile(k, alg, iv, sha, v, dec) ==
    [Key        |-> [Key |-> k, Algorithm |-> alg],
     InitVector |-> iv,
     Hashes     |-> [SHA256 |-> sha],
     Version    |-> v,
     decoded    |-> dec]

NewEncryptedFile ==
    {EncryptedFile(EncodeToString(RawURLEncoding, g.key), "A256CTR",
                   EncodeToString(RawStdEncoding, g.iv), <<>>, "v2",
                   Ref([key |-> g.key, iv |-> g.iv])) : g \in genA256CTR}


\* Mutant of CacheHit: the cache is never taken as present.
CacheHitNever(d) == FALSE

\* Line 83: the cache is used when it is there.
CacheHit(d) == d.decoded # NilPtr


\* Mutant of decodeKeys: the key is decoded with the standard alphabet.
decodeKeysStdKey(d) ==
    IF CacheHit(d) THEN [ef |-> d, err |-> "nil"]
    ELSE IF Len(d.Key.Key) # keyBase64Length THEN [ef |-> d, err |-> "InvalidKey"]
    ELSE IF Len(d.InitVector) # ivBase64Length
         THEN [ef |-> d, err |-> "InvalidInitVector"]
    ELSE LET k == Decode(RawStdEncoding, Zeroed(keyLength), d.Key.Key)
             v == Decode(RawStdEncoding, Zeroed(ivLength), d.InitVector)
         IN  IF k.err
             THEN [ef  |-> [d EXCEPT !.decoded =
                              Ref([key |-> k.dst, iv |-> Zeroed(ivLength)])],
                   err |-> "InvalidKey"]
             ELSE [ef  |-> [d EXCEPT !.decoded = Ref([key |-> k.dst, iv |-> v.dst])],
                   err |-> IF v.err THEN "InvalidInitVector" ELSE "nil"]

decodeKeys(d) ==
    IF CacheHit(d) THEN [ef |-> d, err |-> "nil"]
    ELSE IF Len(d.Key.Key) # keyBase64Length THEN [ef |-> d, err |-> "InvalidKey"]
    ELSE IF Len(d.InitVector) # ivBase64Length
         THEN [ef |-> d, err |-> "InvalidInitVector"]
    ELSE LET k == Decode(RawURLEncoding, Zeroed(keyLength), d.Key.Key)
             v == Decode(RawStdEncoding, Zeroed(ivLength), d.InitVector)
         IN  IF k.err
             THEN [ef  |-> [d EXCEPT !.decoded =
                              Ref([key |-> k.dst, iv |-> Zeroed(ivLength)])],
                   err |-> "InvalidKey"]
             ELSE [ef  |-> [d EXCEPT !.decoded = Ref([key |-> k.dst, iv |-> v.dst])],
                   err |-> IF v.err THEN "InvalidInitVector" ELSE "nil"]


\* Mutant of EncryptCall: the digest is taken over the plaintext.
EncryptCallHashPlain(d, plaintext) ==
    LET r == decodeKeys(d).ef
    IN  IF r.decoded = NilPtr
        THEN [ef |-> r, out |-> NilPtr, err |-> "panic"]
        ELSE LET ciphertext == xorA256CTR(plaintext, r.decoded[1].key, r.decoded[1].iv)
             IN  [ef  |-> [r EXCEPT !.Hashes.SHA256 =
                              EncodeToString(RawStdEncoding, Sum256(plaintext))],
                  out |-> Ref(ciphertext),
                  err |-> "nil"]

\* Mutant of EncryptCall: a digest that is already set is kept.
EncryptCallKeepDigest(d, plaintext) ==
    LET r == decodeKeys(d).ef
    IN  IF r.decoded = NilPtr
        THEN [ef |-> r, out |-> NilPtr, err |-> "panic"]
        ELSE LET ciphertext == xorA256CTR(plaintext, r.decoded[1].key, r.decoded[1].iv)
             IN  [ef  |-> IF r.Hashes.SHA256 # <<>> THEN r
                          ELSE [r EXCEPT !.Hashes.SHA256 =
                                  EncodeToString(RawStdEncoding, Sum256(ciphertext))],
                  out |-> Ref(ciphertext),
                  err |-> "nil"]

\* Encrypt drops the error of decodeKeys; with the cache still nil the read of
\* ef.decoded.key is a nil dereference, which panics before anything is written.
EncryptCall(d, plaintext) ==
    LET r == decodeKeys(d).ef
    IN  IF r.decoded = NilPtr
        THEN [ef |-> r, out |-> NilPtr, err |-> "panic"]
        ELSE LET ciphertext == xorA256CTR(plaintext, r.decoded[1].key, r.decoded[1].iv)
             IN  [ef  |-> [r EXCEPT !.Hashes.SHA256 =
                              EncodeToString(RawStdEncoding, Sum256(ciphertext))],
                  out |-> Ref(ciphertext),
                  err |-> "nil"]


\* Mutant of checkHash: a well-formed digest is accepted without comparison.
checkHashFormOnly(d, ciphertext) ==
    IF Len(d.Hashes.SHA256) # hashBase64Length THEN FALSE
    ELSE ~Decode(RawStdEncoding, Zeroed(hashLength), d.Hashes.SHA256).err

checkHash(d, ciphertext) ==
    IF Len(d.Hashes.SHA256) # hashBase64Length THEN FALSE
    ELSE LET h == Decode(RawStdEncoding, Zeroed(hashLength), d.Hashes.SHA256)
         IN  IF h.err THEN FALSE ELSE h.dst = Sum256(ciphertext)


\* Mutant of DecryptCall: the keys are decoded before the checks.
DecryptCallDecodeFirst(d, ciphertext) ==
    LET r == decodeKeys(d)
    IN  IF d.Version # "v2"
        THEN [ef |-> r.ef, out |-> NilPtr, err |-> "UnsupportedVersion"]
        ELSE IF d.Key.Algorithm # "A256CTR"
             THEN [ef |-> r.ef, out |-> NilPtr, err |-> "UnsupportedAlgorithm"]
        ELSE IF ~checkHash(d, ciphertext)
             THEN [ef |-> r.ef, out |-> NilPtr, err |-> "HashMismatch"]
        ELSE IF r.err # "nil" THEN [ef |-> r.ef, out |-> NilPtr, err |-> r.err]
        ELSE [ef  |-> r.ef,
              out |-> Ref(xorA256CTR(ciphertext, r.ef.decoded[1].key,
                                     r.ef.decoded[1].iv)),
              err |-> "nil"]

DecryptCall(d, ciphertext) ==
    IF d.Version # "v2" THEN [ef |-> d, out |-> NilPtr, err |-> "UnsupportedVersion"]
    ELSE IF d.Key.Algorithm # "A256CTR"
         THEN [ef |-> d, out |-> NilPtr, err |-> "UnsupportedAlgorithm"]
    ELSE IF ~checkHash(d, ciphertext)
         THEN [ef |-> d, out |-> NilPtr, err |-> "HashMismatch"]
    ELSE LET r == decodeKeys(d)
         IN  IF r.err # "nil" THEN [ef |-> r.ef, out |-> NilPtr, err |-> r.err]
             ELSE [ef  |-> r.ef,
                   out |-> Ref(xorA256CTR(ciphertext, r.ef.decoded[1].key,
                                          r.ef.decoded[1].iv)),
                   err |-> "nil"]

(***************************************************************************)
(* Descriptors received from outside: encoding/json fills the exported     *)
(* fields from the wire and leaves the unexported cache nil.  The fields   *)
(* are drawn from well-formed and malformed values.                        *)
(***************************************************************************)
Truncated(s) == SubSeq(s, 1, Len(s) - 1)

BadAt(s, pos, ch) == [s EXCEPT ![pos] = ch]

HalfOnes(n) == [i \in 1..n |-> IF i <= n \div 2 THEN 1 ELSE 0]

KeyFields ==
    LET good == EncodeToString(RawURLEncoding, Ones(keyLength))
    IN  {good, Truncated(good), BadAt(good, 1, "+"), BadAt(good, keyLength, "+")}

InitVectorFields ==
    LET good == EncodeToString(RawStdEncoding, HalfOnes(ivLength))
    IN  {good, Truncated(good), BadAt(good, ivLength, "-")}

SHA256Fields ==
    {EncodeToString(RawStdEncoding, Sum256(c)) : c \in ShortPayloads}
        \cup {<<>>, BadAt(EncodeToString(RawStdEncoding, Sum256(<<>>)), 1, "-")}

Unmarshal ==
    {EncryptedFile(k, alg, iv, sha, v, NilPtr) :
        k \in KeyFields, alg \in {"A256CTR", "A128CTR"}, iv \in InitVectorFields,
        sha \in SHA256Fields, v \in {"v2", "v1"}}

NoCall == [op |-> "none", arg |-> <<>>, out |-> NilPtr, err |-> "nil"]

Idle ==
    /\ pc = [t \in Threads |-> "idle"]
    /\ ct = [t \in Threads |-> <<>>]
    /\ res = [t \in Threads |-> NoCall]

Init ==
    /\ \/ ef \in NewEncryptedFile /\ origin = "NewEncryptedFile"
       \/ ef \in Unmarshal /\ origin = "Unmarshal"
    /\ decodedBefore = ef.decoded
    /\ last = NoCall
    /\ lastEnc = NilPtr
    /\ ref = NilPtr
    /\ Idle

(***************************************************************************)
(* The calls of one caller at a time.  origin tells where the key and IV   *)
(* of the descriptor come from, last is the last call and what it          *)
(* returned, decodedBefore the cache as that call found it, lastEnc the    *)
(* most recent Encrypt that returned, and ref an earlier Encrypt that      *)
(* returned, remembered for comparison.                                    *)
(***************************************************************************)
EncryptStep(plaintext) ==
    \E r \in {EncryptCall(ef, plaintext)} :
        /\ ef' = r.ef
        /\ decodedBefore' = ef.decoded
        /\ last' = [op |-> "Encrypt", arg |-> plaintext, out |-> r.out, err |-> r.err]
        /\ lastEnc' = IF r.err = "nil"
                      THEN Ref([p |-> plaintext, c |-> r.out[1]])
                      ELSE lastEnc
        /\ UNCHANGED <<origin, pc, ct, res>>

Encrypt(plaintext) == EncryptStep(plaintext) /\ UNCHANGED ref

Decrypt(ciphertext) ==
    \E r \in {DecryptCall(ef, ciphertext)} :
        /\ ef' = r.ef
        /\ decodedBefore' = ef.decoded
        /\ last' = [op |-> "Decrypt", arg |-> ciphertext, out |-> r.out, err |-> r.err]
        /\ UNCHANGED <<origin, lastEnc, ref, pc, ct, res>>

Next ==
    \/ \E plaintext \in Payloads : Encrypt(plaintext)
    \/ \E ciphertext \in Payloads : Decrypt(ciphertext)

Spec == Init /\ [][Next]_vars

(***************************************************************************)
(* The same calls with an observer and with the descriptor travelling: ref *)
(* may remember any one Encrypt that returned, and Reserialize sends the   *)
(* descriptor as JSON and reads it back, which gives a new instance with   *)
(* the same fields and an empty cache.                                     *)
(***************************************************************************)
EncryptObserved(plaintext) ==
    /\ EncryptStep(plaintext)
    /\ \E r \in {EncryptCall(ef, plaintext)} :
           ref' \in {ref} \cup
                {Ref([p |-> plaintext, c |-> r.out[1], d |-> r.ef.Hashes.SHA256,
                      cached |-> ef.decoded # NilPtr]) :
                    x \in {y \in {1} : ref = NilPtr /\ r.err = "nil"}}

Reserialize ==
    /\ ef.decoded # NilPtr
    /\ ef' = [ef EXCEPT !.decoded = NilPtr]
    /\ decodedBefore' = NilPtr
    /\ last' = NoCall
    /\ UNCHANGED <<origin, lastEnc, ref, pc, ct, res>>

\* Descriptors not yet used for encryption: no digest.
InitHist == Init /\ ef.Hashes.SHA256 = <<>>

\* The ciphertexts the caller holds: those the remembered calls returned.
Returned == {x[1].c : x \in {lastEnc, ref} \ {NilPtr}}

NextHist ==
    \/ \E plaintext \in Payloads : EncryptObserved(plaintext)
    \/ \E ciphertext \in Returned : Decrypt(ciphertext)
    \/ Reserialize

SpecHist == InitHist /\ [][NextHist]_vars

(***************************************************************************)
(* Decrypt calls of several goroutines on one shared descriptor, one step  *)
(* per access to the descriptor.  ct[t] is the argument of goroutine t,    *)
(* pc[t] its place in Decrypt and decodeKeys, res[t] what its call         *)
(* returned; decodedBefore is the cache as it was when the calls started.  *)
(* No Encrypt runs.                                                        *)
(***************************************************************************)
\* The descriptors the goroutines may be handed: a new one after an Encrypt,
\* a received one, or a received one after a first Decrypt.
InitConc ==
    /\ \/ /\ ef \in {EncryptCall(d, p).ef : d \in NewEncryptedFile, p \in ShortPayloads}
          /\ origin = "NewEncryptedFile"
       \/ /\ ef \in Unmarshal \cup
                    {DecryptCall(d, c).ef : d \in Unmarshal, c \in ShortPayloads}
          /\ origin = "Unmarshal"
    /\ decodedBefore = ef.decoded
    /\ last = NoCall
    /\ lastEnc = NilPtr
    /\ ref = NilPtr
    /\ pc = [t \in Threads |-> "version"]
    /\ ct \in [Threads -> ShortPayloads]
    /\ res = [t \in Threads |-> NoCall]

Return(t, out, err) ==
    /\ res' = [res EXCEPT ![t] = [op |-> "Decrypt", arg |-> ct[t], out |-> out, err |-> err]]
    /\ pc' = [pc EXCEPT ![t] = "done"]

Goto(t, label) == pc' = [pc EXCEPT ![t] = label] /\ UNCHANGED res

Sequential == <<origin, decodedBefore, last, lastEnc, ref>>

\* Line 123.
CheckVersion(t) ==
    /\ pc[t] = "version"
    /\ IF ef.Version # "v2" THEN Return(t, NilPtr, "UnsupportedVersion")
       ELSE Goto(t, "algorithm")
    /\ UNCHANGED <<ef, ct, Sequential>>

\* Line 125.
CheckAlgorithm(t) ==
    /\ pc[t] = "algorithm"
    /\ IF ef.Key.Algorithm # "A256CTR" THEN Return(t, NilPtr, "UnsupportedAlgorithm")
       ELSE Goto(t, "hash")
    /\ UNCHANGED <<ef, ct, Sequential>>

\* Line 127.
CheckHash(t) ==
    /\ pc[t] = "hash"
    /\ IF ~checkHash(ef, ct[t]) THEN Return(t, NilPtr, "HashMismatch")
       ELSE Goto(t, "decodeKeys")
    /\ UNCHANGED <<ef, ct, Sequential>>

\* Lines 83-89: the read of the cache pointer and the two length checks.
EnterDecodeKeys(t) ==
    /\ pc[t] = "decodeKeys"
    /\ IF CacheHit(ef) THEN Goto(t, "xor")
       ELSE IF Len(ef.Key.Key) # keyBase64Length THEN Return(t, NilPtr, "InvalidKey")
       ELSE IF Len(ef.InitVector) # ivBase64Length
            THEN Return(t, NilPtr, "InvalidInitVector")
       ELSE Goto(t, "alloc")
    /\ UNCHANGED <<ef, ct, Sequential>>

\* Line 90: the cache pointer is set to a fresh, zeroed pair.
AllocDecoded(t) ==
    /\ pc[t] = "alloc"
    /\ ef' = [ef EXCEPT !.decoded =
                Ref([key |-> Zeroed(keyLength), iv |-> Zeroed(ivLength)])]
    /\ Goto(t, "key")
    /\ UNCHANGED <<ct, Sequential>>

\* Lines 91-94: the key is decoded into the pair the cache points at.
DecodeKey(t) ==
    /\ pc[t] = "key"
    /\ \E k \in {Decode(RawURLEncoding, ef.decoded[1].key, ef.Key.Key)} :
        /\ ef' = [ef EXCEPT !.decoded = Ref([key |-> k.dst, iv |-> ef.decoded[1].iv])]
        /\ IF k.err THEN Return(t, NilPtr, "InvalidKey") ELSE Goto(t, "iv")
    /\ UNCHANGED <<ct, Sequential>>

\* Lines 95-99.
DecodeInitVector(t) ==
    /\ pc[t] = "iv"
    /\ \E v \in {Decode(RawStdEncoding, ef.decoded[1].iv, ef.InitVector)} :
        /\ ef' = [ef EXCEPT !.decoded = Ref([key |-> ef.decoded[1].key, iv |-> v.dst])]
        /\ IF v.err THEN Return(t, NilPtr, "InvalidInitVector") ELSE Goto(t, "xor")
    /\ UNCHANGED <<ct, Sequential>>

\* What a read of the cached pair may return.  While another goroutine is
\* between its allocation and the end of its decoding, the read races with
\* that goroutine's writes: each byte read is the byte now in the cache or
\* the byte the writer stores there.
Mixed(cur, other) == {a \in [DOMAIN cur -> Byte] : \A i \in DOMAIN cur : a[i] \in {cur[i], other[i]}}

DecodedViews(t) ==
    IF \E u \in Threads \ {t} : pc[u] \in {"key", "iv"}
    THEN {[key |-> k, iv |-> v] :
            k \in Mixed(ef.decoded[1].key,
                        Decode(RawURLEncoding, ef.decoded[1].key, ef.Key.Key).dst),
            v \in Mixed(ef.decoded[1].iv,
                        Decode(RawStdEncoding, ef.decoded[1].iv, ef.InitVector).dst)}
    ELSE {ef.decoded[1]}

\* Line 132.
XorKeyStream(t) ==
    /\ pc[t] = "xor"
    /\ \E view \in DecodedViews(t) :
        Return(t, Ref(xorA256CTR(ct[t], view.key, view.iv)), "nil")
    /\ UNCHANGED <<ef, ct, Sequential>>

NextConc ==
    \E t \in Threads :
        \/ CheckVersion(t)
        \/ CheckAlgorithm(t)
        \/ CheckHash(t)
        \/ EnterDecodeKeys(t)
        \/ AllocDecoded(t)
        \/ DecodeKey(t)
        \/ DecodeInitVector(t)
        \/ XorKeyStream(t)

SpecConc == InitConc /\ [][NextConc]_vars

\* What the call returns when it runs alone on descriptor d.
Alone(d, ciphertext) ==
    LET r == DecryptCall(d, ciphertext)
    IN  [op |-> "Decrypt", arg |-> ciphertext, out |-> r.out, err |-> r.err]

(***************************************************************************)
(* The properties.  The notions they are stated in are defined here on the *)
(* fields themselves, apart from the operations above.                     *)
(***************************************************************************)
\* s is the unpadded encoding, in alphabet enc, of exactly n bytes.
WellFormed(enc, n, s) == Len(s) = n /\ \A i \in 1..Len(s) : s[i] \in Symbols(enc)

BytesOf(enc, s) == [i \in 1..Len(s) |-> DigitOf(enc, s[i])]

KeyDecodes(d) == WellFormed(RawURLEncoding, keyLength, d.Key.Key)

InitVectorDecodes(d) == WellFormed(RawStdEncoding, ivLength, d.InitVector)

DigestOf(data) == EncodeToString(RawStdEncoding, Sum256(data))

Supported(d) == d.Version = "v2" /\ d.Key.Algorithm = "A256CTR"

EarlyErrors == {"UnsupportedVersion", "UnsupportedAlgorithm", "HashMismatch"}

\* C1: on a descriptor returned by NewEncryptedFile, Decrypt of the ciphertext
\* that Encrypt(P) returned succeeds and returns exactly P.
C1_RoundTrip ==
    (/\ origin = "NewEncryptedFile"
     /\ lastEnc # NilPtr
     /\ last.op = "Decrypt"
     /\ last.arg = lastEnc[1].c)
        => last.err = "nil" /\ last.out = Ref(lastEnc[1].p)

\* C1 witness: a round trip of a plaintext of full length whose ciphertext
\* differs from it.
C1_Witness ==
    /\ origin = "NewEncryptedFile"
    /\ lastEnc # NilPtr
    /\ last.op = "Decrypt"
    /\ last.arg = lastEnc[1].c
    /\ Len(last.arg) = MaxLen
    /\ lastEnc[1].c # lastEnc[1].p
    /\ last.out = Ref(lastEnc[1].p)

\* The error the ordered list of checks of C2 gives for descriptor d and a
\* ciphertext: version, algorithm, digest, key, IV; "nil" when all pass.
ClaimedError(d, ciphertext) ==
    IF d.Version # "v2" THEN "UnsupportedVersion"
    ELSE IF d.Key.Algorithm # "A256CTR" THEN "UnsupportedAlgorithm"
    ELSE IF d.Hashes.SHA256 # DigestOf(ciphertext) THEN "HashMismatch"
    ELSE IF ~KeyDecodes(d) THEN "InvalidKey"
    ELSE IF ~InitVectorDecodes(d) THEN "InvalidInitVector"
    ELSE "nil"

\* C2: every Decrypt call returns the error of the first failing check in the
\* order version, algorithm, digest, key, IV.
C2_CheckOrder ==
    last.op = "Decrypt" => last.err = ClaimedError(ef, last.arg)

\* C3: after Encrypt returned ciphertext C, Decrypt of any other byte sequence
\* on that descriptor, its version and algorithm being the supported ones,
\* fails with HashMismatch and returns no plaintext.
C3_TamperDetected ==
    (/\ lastEnc # NilPtr
     /\ Supported(ef)
     /\ last.op = "Decrypt"
     /\ last.arg # lastEnc[1].c)
        => last.err = "HashMismatch" /\ last.out = NilPtr

\* C3 witness: the ciphertext with exactly one bit flipped was rejected.
C3_Witness ==
    /\ lastEnc # NilPtr
    /\ Supported(ef)
    /\ last.op = "Decrypt"
    /\ Len(last.arg) = Len(lastEnc[1].c)
    /\ Cardinality({i \in 1..Len(last.arg) : last.arg[i] # lastEnc[1].c[i]}) = 1
    /\ last.err = "HashMismatch"

\* C4: on a received descriptor with the supported version and algorithm and a
\* key field that is not the encoding of 32 bytes, every Decrypt call whose
\* ciphertext matches the digest fails with InvalidKey and returns nothing.
C4_MalformedKeyRejected ==
    (/\ origin = "Unmarshal"
     /\ Supported(ef)
     /\ ~KeyDecodes(ef)
     /\ last.op = "Decrypt"
     /\ ef.Hashes.SHA256 = DigestOf(last.arg))
        => last.err = "InvalidKey" /\ last.out = NilPtr

\* C5: an Encrypt call that finds the cache empty and a key or IV field that
\* does not decode reports a failure, returns no ciphertext and leaves the
\* digest field as it was.
C5_EncryptPropagates ==
    [][(/\ last'.op = "Encrypt"
        /\ ef.decoded = NilPtr
        /\ ~(KeyDecodes(ef) /\ InitVectorDecodes(ef)))
           => (/\ last'.err # "nil"
               /\ last'.out = NilPtr
               /\ ef'.Hashes.SHA256 = ef.Hashes.SHA256)]_vars

\* C6: a Decrypt call touches the cache or produces output only after the
\* version, algorithm and digest checks have passed; a call that fails with
\* UnsupportedVersion, UnsupportedAlgorithm or HashMismatch leaves the cache
\* as it found it and returns no plaintext.
C6_VerifyBeforeDecrypt ==
    last.op = "Decrypt" =>
        /\ last.err \in EarlyErrors => ef.decoded = decodedBefore /\ last.out = NilPtr
        /\ (ef.decoded # decodedBefore \/ last.out # NilPtr) =>
              Supported(ef) /\ ef.Hashes.SHA256 = DigestOf(last.arg)

\* C6 witness: a digest mismatch on a received descriptor whose key and IV
\* would decode, and the cache is still empty.
C6_Witness ==
    /\ last.op = "Decrypt"
    /\ last.err = "HashMismatch"
    /\ KeyDecodes(ef) /\ InitVectorDecodes(ef)
    /\ decodedBefore = NilPtr
    /\ ef.decoded = NilPtr

\* C7, as claimed: after one or more Encrypt calls on a descriptor with
\* decodable key and IV the digest is that of the most recent ciphertext,
\* Decrypt of the most recent ciphertext succeeds, and Decrypt of a different
\* ciphertext returned earlier fails with HashMismatch.
C7_DigestTracksLast ==
    (lastEnc # NilPtr /\ KeyDecodes(ef) /\ InitVectorDecodes(ef)) =>
        /\ ef.Hashes.SHA256 = DigestOf(lastEnc[1].c)
        /\ (last.op = "Decrypt" /\ last.arg = lastEnc[1].c) => last.err = "nil"
        /\ (/\ last.op = "Decrypt"
            /\ ref # NilPtr
            /\ last.arg = ref[1].c
            /\ ref[1].c # lastEnc[1].c) => last.err = "HashMismatch"

\* C7, amended: the same, the two Decrypt results being claimed only for a
\* descriptor with version "v2" and algorithm "A256CTR".
C7_DigestTracksLastSupported ==
    (lastEnc # NilPtr /\ KeyDecodes(ef) /\ InitVectorDecodes(ef)) =>
        /\ ef.Hashes.SHA256 = DigestOf(lastEnc[1].c)
        /\ Supported(ef) =>
            /\ (last.op = "Decrypt" /\ last.arg = lastEnc[1].c) => last.err = "nil"
            /\ (/\ last.op = "Decrypt"
                /\ ref # NilPtr
                /\ last.arg = ref[1].c
                /\ ref[1].c # lastEnc[1].c) => last.err = "HashMismatch"

\* C7 witness: after two Encrypt calls with different results, Decrypt of the
\* earlier ciphertext was rejected.
C7_Witness ==
    /\ lastEnc # NilPtr /\ ref # NilPtr
    /\ KeyDecodes(ef) /\ InitVectorDecodes(ef) /\ Supported(ef)
    /\ ref[1].c # lastEnc[1].c
    /\ last.op = "Decrypt"
    /\ last.arg = ref[1].c
    /\ last.err = "HashMismatch"
    /\ ef.Hashes.SHA256 = DigestOf(lastEnc[1].c)

\* C8: an Encrypt call with the plaintext of a remembered Encrypt call, on the
\* same instance or on one with the same key and IV fields and the cache
\* decoded lazily, returns the same ciphertext and sets the same digest.
C8_Deterministic ==
    (/\ ref # NilPtr
     /\ last.op = "Encrypt"
     /\ last.err = "nil"
     /\ last.arg = ref[1].p)
        => last.out = Ref(ref[1].c) /\ ef.Hashes.SHA256 = ref[1].d

\* C8 witness: the remembered call ran on the new descriptor with its cache
\* in place, the last on a reserialized instance that decoded the fields.
C8_Witness ==
    /\ ref # NilPtr
    /\ ref[1].cached
    /\ origin = "NewEncryptedFile"
    /\ decodedBefore = NilPtr
    /\ last.op = "Encrypt"
    /\ last.arg = ref[1].p
    /\ Len(last.arg) = MaxLen
    /\ last.out = Ref(ref[1].c)

\* C9: when the cache was populated before the goroutines started, no step of
\* any of them changes the descriptor, and each call returns what it returns
\* when run alone.
C9_SafeFanOut ==
    [][decodedBefore # NilPtr =>
          /\ ef' = ef
          /\ \A t \in Threads :
                pc'[t] = "done" => res'[t] = Alone(ef, ct[t])]_vars

\* C9 witness: with the cache populated beforehand, one goroutine has
\* returned a plaintext while the other is about to read the cache.
C9_Witness ==
    /\ decodedBefore # NilPtr
    /\ pc[1] = "done" /\ res[1].err = "nil" /\ Len(ct[1]) > 0
    /\ pc[2] = "xor"

\* C10: a populated cache holds the bytes the key and IV fields decode to, and
\* a decode that returned InvalidKey or InvalidInitVector leaves no cache.
C10_CacheCoherent ==
    /\ ef.decoded # NilPtr =>
          /\ KeyDecodes(ef) /\ InitVectorDecodes(ef)
          /\ ef.decoded[1].key = BytesOf(RawURLEncoding, ef.Key.Key)
          /\ ef.decoded[1].iv = BytesOf(RawStdEncoding, ef.InitVector)
    /\ (last.op = "Decrypt" /\ last.err \in {"InvalidKey", "InvalidInitVector"})
          => ef.decoded = NilPtr

====
